---- MODULE Spec2Model ----
(***************************************************************************)
(* gemstash: a server-free memcached replacement.                          *)
(*                                                                         *)
(* The model covers the two stores of gemstash.py, Stash (typed values)    *)
(* and MimicStash (byte-serialized values with a parse function), and the  *)
(* threads that call them.  A store operation is a sequence of steps, one  *)
(* per access to the shared dict self.cache; a `with self.write_lock`      *)
(* block is entered in the step of its first access and left in the step   *)
(* of its last one.  __getitem__ takes no lock, so its steps interleave    *)
(* with the steps of a locked operation of another thread.                 *)
(***************************************************************************)
EXTENDS Integers, Sequences, FiniteSets, TLC

(***************************************************************************)
(* Bounds of the model.                                                    *)
(***************************************************************************)
\* operations started in one run of Spec
MaxOps == 3
\* seconds the clock advances in one run
MaxTicks == 2
\* incr calls each thread makes in SpecIncr
MaxCalls == 2
\* operations started in one run of SpecClient
MaxClientOps == 5

(***************************************************************************)
(* Values.  A Python value is a record: k is its type ("str", "int",       *)
(* "float", "obj" for a compound value such as a dict), n the number of an *)
(* int, s the characters of a str, the repr of a float or of a compound    *)
(* value.                                                                  *)
(***************************************************************************)
Digits == <<"0", "1", "2", "3", "4", "5", "6", "7", "8", "9">>

IsDigit(c) == \E i \in 1..10 : Digits[i] = c

DigitVal(c) == (CHOOSE i \in 1..10 : Digits[i] = c) - 1

StrV(s) == [k |-> "str", n |-> 0, s |-> s]
IntV(n) == [k |-> "int", n |-> n, s |-> <<>>]
FloatV(s) == [k |-> "float", n |-> 0, s |-> s]
ObjV(s) == [k |-> "obj", n |-> 0, s |-> s]

\* the value None, and the marker of a failed conversion (ValueError)
NoneV == [k |-> "none", n |-> 0, s |-> <<>>]
ErrV == [k |-> "error", n |-> 0, s |-> <<>>]

EmptyDict == <<"{", "}">>

\* str(n) of a natural number
RECURSIVE NatStr(_)
NatStr(n) == IF n < 10 THEN <<Digits[n + 1]>>
             ELSE NatStr(n \div 10) \o <<Digits[(n % 10) + 1]>>

\* str(n) of an int
IntStr(n) == IF n < 0 THEN <<"-">> \o NatStr(0 - n) ELSE NatStr(n)

\* the number a non-empty digit string denotes
RECURSIVE DigitsNat(_)
DigitsNat(s) == IF Len(s) = 0 THEN 0
                ELSE 10 * DigitsNat(SubSeq(s, 1, Len(s) - 1)) + DigitVal(s[Len(s)])

AllDigits(s) == \A i \in 1..Len(s) : IsDigit(s[i])

\* int(s) succeeds: an optional sign, then one digit or more
IntParses(s) ==
    LET body == IF Len(s) > 0 /\ s[1] = "-" THEN Tail(s) ELSE s
    IN Len(body) > 0 /\ AllDigits(body)

\* int(s), for a string that int() accepts
IntParse(s) ==
    IF Len(s) > 0 /\ s[1] = "-" THEN 0 - DigitsNat(Tail(s)) ELSE DigitsNat(s)

\* the positions of "." in s
Dots(s) == {i \in 1..Len(s) : s[i] = "."}

\* float(s) succeeds: an optional sign, digits with at most one ".", one
\* digit at least
FloatParses(s) ==
    LET body == IF Len(s) > 0 /\ s[1] = "-" THEN Tail(s) ELSE s
    IN /\ Cardinality(Dots(body)) <= 1
       /\ \A i \in 1..Len(body) : IsDigit(body[i]) \/ body[i] = "."
       /\ \E i \in 1..Len(body) : IsDigit(body[i])

RECURSIVE StripLeadingZeros(_)
StripLeadingZeros(s) ==
    IF Len(s) > 1 /\ s[1] = "0" THEN StripLeadingZeros(Tail(s)) ELSE s

RECURSIVE StripTrailingZeros(_)
StripTrailingZeros(s) ==
    IF Len(s) > 1 /\ s[Len(s)] = "0"
    THEN StripTrailingZeros(SubSeq(s, 1, Len(s) - 1)) ELSE s

\* repr(float(s)), for a string that float() accepts: the integer part
\* without leading zeros, the fraction without trailing zeros
FloatParse(s) ==
    LET neg == Len(s) > 0 /\ s[1] = "-"
        body == IF neg THEN Tail(s) ELSE s
        dot == IF Dots(body) = {} THEN Len(body) + 1 ELSE CHOOSE i \in Dots(body) : TRUE
        ip == SubSeq(body, 1, dot - 1)
        fp == SubSeq(body, dot + 1, Len(body))
        ipn == IF Len(ip) = 0 THEN <<"0">> ELSE StripLeadingZeros(ip)
        fpn == IF Len(fp) = 0 THEN <<"0">> ELSE StripTrailingZeros(fp)
    IN (IF neg THEN <<"-">> ELSE <<>>) \o ipn \o <<".">> \o fpn

FloatIsZero(s) == \A i \in 1..Len(s) : s[i] \in {"0", ".", "-"}

\* str(v)
PyStr(v) == IF v.k = "int" THEN IntStr(v.n) ELSE v.s

\* mutant: only None is false
Truthy_NoneOnly(v) == v.k # "none"

\* bool(v): None, "", 0, 0.0 and {} are false
Truthy(v) ==
    CASE v.k = "none" -> FALSE
      [] v.k = "str" -> Len(v.s) > 0
      [] v.k = "int" -> v.n # 0
      [] v.k = "float" -> ~FloatIsZero(v.s)
      [] v.k = "obj" -> v.s # EmptyDict
      [] OTHER -> FALSE

BoolV(b) == [k |-> "bool", n |-> IF b THEN 1 ELSE 0, s |-> <<>>]

\* the bytes str(v).encode("utf_8") of MimicStash
BytesV(s) == [k |-> "bytes", n |-> 0, s |-> s]

(***************************************************************************)
(* Time.  clock is the Unix time in seconds; datetime.datetime.now() is    *)
(* the naive local time clock + tz, utcfromtimestamp(x) the naive UTC time *)
(* x.  A datetime is the number of seconds it denotes.                     *)
(***************************************************************************)
None == -1

ThirtyDays == 60 * 60 * 24 * 30

\* the Unix time at which a run starts
Epoch0 == ThirtyDays + 100

TzOffsets == {0 - 3600, 0, 3600}

\* the keys of the store: "pa" is the key "a" behind the key_prefix "p"
Keys == {"a", "pa"}

Threads == {1, 2}

Variants == {"Stash", "MimicStash"}

VARIABLES
    variant,    \* the class of the store: "Stash" or "MimicStash"
    tz,         \* the offset of the local clock from UTC, in seconds
    clock,      \* the Unix time
    cache,      \* self.cache: a dict from keys to CachedItem
    lock,       \* self.write_lock: the owner and depth of the RLock
    nextId,     \* the identifiers uuid.uuid4() has returned so far, plus one
    th,         \* per thread: the call in progress, its locals, its result
    nops,       \* the number of calls started
    retired,    \* history: per key, the cas_id of every item replaced or removed
    origin,     \* history: per key, the time argument and the local time of its last write
    start,      \* SpecIncr: the value the key holds at first
    log,        \* SpecIncr: the values the incr calls returned, in order
    cas_cache,  \* per thread: self.cas_cache of the thread's Client
    prev,       \* history: per thread, what the call before this one fetched
    fetched     \* history: per thread, the keys its Client looked up in the store

\* the state of the clients
clients == <<cas_cache, prev, fetched>>

vars == <<variant, tz, clock, cache, lock, nextId, th, nops, retired, origin, start, log,
          clients>>

Now == clock + tz

\* mutant: thirty days itself already counts as an absolute timestamp
Expires_AtThreshold(time, now) ==
    IF time # None /\ time # 0 /\ time >= ThirtyDays THEN time
    ELSE IF time = None \/ time = 0 THEN None
    ELSE now + time

\* the expires of a new item (Stash.set lines 115-121, MimicStash._expires)
Expires(time, now) ==
    IF time # None /\ time # 0 /\ time > ThirtyDays THEN time
    ELSE IF time = None \/ time = 0 THEN None
    ELSE now + time

\* mutant: every item that has an expiry counts as expired
Expired_Always(item, now) == item.expires # None

\* item.expires and item.expires < datetime.datetime.now()
Expired(item, now) == item.expires # None /\ item.expires < now

NoItem == [value |-> NoneV, expires |-> None, parse |-> "none", cas_id |-> 0]

\* the parse function MimicStash.set chooses for a value
ParseOf(v) == IF v.k = "int" THEN "int" ELSE IF v.k = "float" THEN "float" ELSE "str"

\* the CachedItem that set stores
NewItem(var, v, time, now, id) ==
    IF var = "Stash"
    THEN [value |-> v, expires |-> Expires(time, now), parse |-> "none", cas_id |-> id]
    ELSE [value |-> BytesV(PyStr(v)), expires |-> Expires(time, now),
          parse |-> ParseOf(v), cas_id |-> id]

\* mutant: bytes that int() or float() rejects are returned as text
Parse_Lenient(p, b) ==
    CASE p = "int" -> IF IntParses(b.s) THEN IntV(IntParse(b.s)) ELSE StrV(b.s)
      [] p = "float" -> IF FloatParses(b.s) THEN FloatV(FloatParse(b.s)) ELSE StrV(b.s)
      [] OTHER -> StrV(b.s)

\* item.parse(item.value) of MimicStash; ErrV when the conversion raises ValueError
Parse(p, b) ==
    CASE p = "int" -> IF IntParses(b.s) THEN IntV(IntParse(b.s)) ELSE ErrV
      [] p = "float" -> IF FloatParses(b.s) THEN FloatV(FloatParse(b.s)) ELSE ErrV
      [] OTHER -> StrV(b.s)

\* the value __getitem__ returns for an unexpired item
Decode(var, item) == IF var = "Stash" THEN item.value ELSE Parse(item.parse, item.value)

EmptyCache == [k \in {} |-> NoItem]

\* mutant: the assignment drops the other keys
Store_Alone(c, key, item) == [k \in {key} |-> item]

\* self.cache[key] = item
Store(c, key, item) == [k \in (DOMAIN c) \cup {key} |-> IF k = key THEN item ELSE c[k]]

\* del self.cache[key]
Remove(c, key) == [k \in (DOMAIN c) \ {key} |-> c[k]]

(***************************************************************************)
(* threading.RLock: acquire blocks while another thread owns the lock and  *)
(* nests for the owner; release undoes one acquire.                        *)
(***************************************************************************)
Unlocked == [owner |-> 0, count |-> 0]

\* mutant: the `with self.write_lock` is missing
CanAcquire_NoLock(l, t) == TRUE

\* acquire returns at once for the owner and when the lock is free
CanAcquire(l, t) == l.owner = 0 \/ l.owner = t

Acquire(l, t) == [owner |-> t, count |-> l.count + 1]

\* mutant: leaving the outermost `with` block keeps the lock
Release_Outermost(l) == IF l.count <= 1 THEN l ELSE [l EXCEPT !.count = @ - 1]

Release(l) == IF l.count <= 1 THEN Unlocked ELSE [l EXCEPT !.count = @ - 1]

(***************************************************************************)
(* A thread's frame: the call it makes, its locals, and the result the     *)
(* call returned or the exception it raised.                               *)
(***************************************************************************)
NoRet == [tag |-> "pending", val |-> NoneV, id |-> 0, exc |-> ""]

\* the dict results of get_multi before the first key is looked up
NoResults == [k \in {} |-> NoneV]

IdleFrame == [pc |-> "idle", op |-> "none", key |-> "a", prefix |-> "", rest |-> <<>>,
              val |-> NoneV, time |-> 0, tok |-> 0, delta |-> 0, item |-> NoItem,
              seen |-> FALSE, nv |-> NoneV, results |-> NoResults, ret |-> NoRet]

\* the call returns v, or the pair (v, id): the locals are gone
Return(f, v, id) ==
    [f EXCEPT !.pc = "idle", !.item = NoItem, !.seen = FALSE, !.nv = NoneV,
              !.ret = [tag |-> "return", val |-> v, id |-> id, exc |-> ""]]

\* the call raises the exception e
Raise(f, e) ==
    [f EXCEPT !.pc = "idle", !.item = NoItem, !.seen = FALSE, !.nv = NoneV,
              !.ret = [tag |-> "raise", val |-> NoneV, id |-> 0, exc |-> e]]

Goto(f, pc) == [f EXCEPT !.pc = pc]

\* what a step leaves behind
Out(c, l, n, f) == [cache |-> c, lock |-> l, nextId |-> n, fr |-> f]

\* leaving n nested `with self.write_lock` blocks
RECURSIVE ReleaseN(_, _)
ReleaseN(l, n) == IF n = 0 THEN l ELSE ReleaseN(Release(l), n - 1)

(***************************************************************************)
(* __getitem__ (Stash lines 61-70, MimicStash lines 207-216).  It runs     *)
(* without the lock.  Its first step reads self.cache[key] and compares    *)
(* item.expires with the clock; its second step, taken for an expired      *)
(* item, is del self.cache[key].                                           *)
(*   st = "absent": KeyError caught, None returned                         *)
(*   st = "expired": the item is to be deleted                             *)
(*   st = "error": item.parse raised ValueError                            *)
(*   st = "ok": (val, item.cas_id) is returned                             *)
(***************************************************************************)
GetItemRead(var, c, key, now) ==
    IF key \notin DOMAIN c THEN [st |-> "absent", val |-> NoneV, item |-> NoItem]
    ELSE IF Expired(c[key], now) THEN [st |-> "expired", val |-> NoneV, item |-> c[key]]
    ELSE IF Decode(var, c[key]) = ErrV THEN [st |-> "error", val |-> NoneV, item |-> c[key]]
    ELSE [st |-> "ok", val |-> Decode(var, c[key]), item |-> c[key]]

\* the step del self.cache[key] of __getitem__: a KeyError when the key is gone
GetItemDel(c, key) ==
    IF key \in DOMAIN c THEN [st |-> "absent", cache |-> Remove(c, key)]
    ELSE [st |-> "KeyError", cache |-> c]

\* Client.get's call self.stash[key], as a call of its own
GetStep(t) ==
    LET f == th[t]
    IN IF f.pc = "read"
       THEN LET r == GetItemRead(variant, cache, f.key, Now)
            IN CASE r.st = "absent" -> Out(cache, lock, nextId, Return(f, NoneV, 0))
                 [] r.st = "expired" ->
                      Out(cache, lock, nextId, Goto([f EXCEPT !.item = r.item], "del"))
                 [] r.st = "error" -> Out(cache, lock, nextId, Raise(f, "ValueError"))
                 [] OTHER -> Out(cache, lock, nextId, Return(f, r.val, r.item.cas_id))
       ELSE LET d == GetItemDel(cache, f.key)
            IN IF d.st = "KeyError" THEN Out(cache, lock, nextId, Raise(f, "KeyError"))
               ELSE Out(d.cache, lock, nextId, Return(f, NoneV, 0))

(***************************************************************************)
(* set (Stash lines 113-123, MimicStash lines 259-270), one step: the      *)
(* clock is read and the item stored with a new uuid4.  depth is the       *)
(* number of `with` blocks the caller is in.                               *)
(***************************************************************************)
\* mutant: an item that replaces another keeps its cas_id
SetWrite_KeepId(var, c, key, v, time, now, id) ==
    Store(c, key, NewItem(var, v, time, now, IF key \in DOMAIN c THEN c[key].cas_id ELSE id))

SetWrite(var, c, key, v, time, now, id) == Store(c, key, NewItem(var, v, time, now, id))

SetStep(t, v, x) ==
    LET f == [th[t] EXCEPT !.val = v, !.time = x]
    IN Out(SetWrite(variant, cache, f.key, v, x, Now, nextId),
           Release(Acquire(lock, t)), nextId + 1, Return(f, BoolV(TRUE), 0))

(***************************************************************************)
(* update (lines 106-111, 252-257): the test `key not in self.cache`, then *)
(* set.                                                                    *)
(***************************************************************************)
UpdateStep(t, v, x) ==
    LET f == th[t]
    IN IF f.pc = "chk"
       THEN IF f.key \notin DOMAIN cache
            THEN Out(cache, Release(Acquire(lock, t)), nextId, Return(f, BoolV(FALSE), 0))
            ELSE Out(cache, Acquire(lock, t), nextId, Goto(f, "set"))
       ELSE Out(SetWrite(variant, cache, f.key, v, x, Now, nextId),
                ReleaseN(Acquire(lock, t), 2), nextId + 1,
                Return([f EXCEPT !.val = v, !.time = x], BoolV(TRUE), 0))

(***************************************************************************)
(* __delitem__ (lines 75-80, 221-226) and flush (lines 125-127, 272-274).  *)
(***************************************************************************)
\* mutant: the del empties the dict
DeleteStep_All(t) ==
    Out(EmptyCache, Release(Acquire(lock, t)), nextId, Return(th[t], NoneV, 0))

DeleteStep(t) ==
    Out(Remove(cache, th[t].key), Release(Acquire(lock, t)), nextId,
        Return(th[t], NoneV, 0))

\* mutant: only the entries that have an expiry are discarded
FlushStep_ExpiringOnly(t) ==
    Out([k \in {q \in DOMAIN cache : cache[q].expires = None} |-> cache[k]],
        Release(Acquire(lock, t)), nextId, Return(th[t], NoneV, 0))

FlushStep(t) ==
    Out(EmptyCache, Release(Acquire(lock, t)), nextId, Return(th[t], NoneV, 0))

(***************************************************************************)
(* incr (lines 88-104, 234-250).                                           *)
(***************************************************************************)
\* mutant: the result is clamped at zero, as memcached does for decr
IncrValue_Clamped(v, delta) ==
    LET floor(n) == IF n < 0 THEN 0 ELSE n
    IN CASE v.k = "str" ->
              IF IntParses(v.s) THEN StrV(IntStr(floor(IntParse(v.s) + delta))) ELSE ErrV
         [] v.k = "int" -> IntV(floor(v.n + delta))
         [] OTHER -> ErrV

\* mutant: a value that is no integer is written back as it is
IncrValue_NoRaise(v, delta) ==
    CASE v.k = "str" -> IF IntParses(v.s) THEN StrV(IntStr(IntParse(v.s) + delta)) ELSE v
      [] v.k = "int" -> IntV(v.n + delta)
      [] OTHER -> v

\* the value incr writes back; ErrV where it raises ValueError
IncrValue(v, delta) ==
    CASE v.k = "str" -> IF IntParses(v.s) THEN StrV(IntStr(IntParse(v.s) + delta)) ELSE ErrV
      [] v.k = "int" -> IntV(v.n + delta)
      [] OTHER -> ErrV

\* int(value), which incr returns
IntOf(v) == IF v.k = "str" THEN IntV(IntParse(v.s)) ELSE v

\* incr from the value self[key] gave it
IncrFrom(f, v, l, t) ==
    IF ~Truthy(v) THEN Out(cache, Release(l), nextId, Return(f, NoneV, 0))
    ELSE IF IncrValue(v, f.delta) = ErrV
    THEN Out(cache, Release(l), nextId, Raise(f, "ValueError"))
    ELSE Out(cache, l, nextId, Goto([f EXCEPT !.nv = IncrValue(v, f.delta)], "chk"))

IncrStep(t, delta) ==
    LET f == IF th[t].pc = "read" THEN [th[t] EXCEPT !.delta = delta] ELSE th[t]
    IN CASE f.pc = "read" ->
              LET r == GetItemRead(variant, cache, f.key, Now)
                  l == Acquire(lock, t)
              IN CASE r.st = "absent" -> IncrFrom(f, NoneV, l, t)
                   [] r.st = "expired" ->
                        Out(cache, l, nextId, Goto([f EXCEPT !.item = r.item], "del"))
                   [] r.st = "error" -> Out(cache, Release(l), nextId, Raise(f, "ValueError"))
                   [] OTHER -> IncrFrom(f, r.val, l, t)
         [] f.pc = "del" ->
              LET d == GetItemDel(cache, f.key)
              IN IF d.st = "KeyError"
                 THEN Out(cache, Release(lock), nextId, Raise(f, "KeyError"))
                 ELSE Out(d.cache, Release(lock), nextId, Return(f, NoneV, 0))
         [] f.pc = "chk" ->
              \* self.update(key, value): its result is dropped
              IF f.key \notin DOMAIN cache
              THEN Out(cache, ReleaseN(Acquire(lock, t), 2), nextId,
                       Return(f, IntOf(f.nv), 0))
              ELSE Out(cache, Acquire(lock, t), nextId, Goto(f, "set"))
         [] OTHER ->
              Out(SetWrite(variant, cache, f.key, f.nv, None, Now, nextId),
                  ReleaseN(Acquire(lock, t), 3), nextId + 1, Return(f, IntOf(f.nv), 0))

(***************************************************************************)
(* append and prepend.  Stash (lines 129-177) reads through __getitem__,   *)
(* combines by the type of the stored value and calls set; MimicStash      *)
(* (lines 276-298) reads the dict itself, joins the bytes and stores the   *)
(* item itself.                                                            *)
(***************************************************************************)
\* the two strings in the order of the call
Joined(op, old, new) == IF op = "append" THEN old \o new ELSE new \o old

\* the value Stash.append/prepend hands to set: ErrV where it raises
\* ValueError, NoneV where it returns False
Combine(op, original, v) ==
    LET s == Joined(op, PyStr(original), PyStr(v))
    IN CASE ~Truthy(original) -> NoneV
         [] original.k = "str" -> StrV(s)
         [] original.k = "int" -> IF IntParses(s) THEN IntV(IntParse(s)) ELSE ErrV
         [] original.k = "float" -> IF FloatParses(s) THEN FloatV(FloatParse(s)) ELSE ErrV
         [] OTHER -> NoneV

\* Stash.append/prepend from the value self[key] gave it
CombineFrom(f, original, l) ==
    LET nv == Combine(f.op, original, f.val)
    IN IF nv = NoneV
       THEN Out(cache, Release(l), nextId, Return(f, BoolV(FALSE), 0))
       ELSE IF nv = ErrV THEN Out(cache, Release(l), nextId, Raise(f, "ValueError"))
       ELSE Out(cache, l, nextId, Goto([f EXCEPT !.nv = nv], "set"))

StashAppendStep(t, v, x) ==
    LET f == th[t]
    IN CASE f.pc = "read" ->
              LET r == GetItemRead("Stash", cache, f.key, Now)
                  l == Acquire(lock, t)
              IN CASE r.st = "absent" -> CombineFrom(f, NoneV, l)
                   [] r.st = "expired" ->
                        Out(cache, l, nextId, Goto([f EXCEPT !.item = r.item], "del"))
                   [] OTHER -> CombineFrom([f EXCEPT !.val = v], r.val, l)
         [] f.pc = "del" ->
              LET d == GetItemDel(cache, f.key)
              IN IF d.st = "KeyError"
                 THEN Out(cache, Release(lock), nextId, Raise(f, "KeyError"))
                 ELSE Out(d.cache, Release(lock), nextId, Return(f, BoolV(FALSE), 0))
         [] OTHER ->
              Out(SetWrite("Stash", cache, f.key, f.nv, x, Now, nextId),
                  ReleaseN(Acquire(lock, t), 2), nextId + 1,
                  Return([f EXCEPT !.time = x], BoolV(TRUE), 0))

\* mutant: with time = 0 the new item keeps the expiry of the old one
MimicJoinItem_KeepExpiry(op, item, v, time, now, id) ==
    [value |-> BytesV(Joined(op, item.value.s, PyStr(v))),
     expires |-> IF time = 0 THEN item.expires ELSE Expires(time, now),
     parse |-> item.parse, cas_id |-> id]

\* the CachedItem MimicStash.append/prepend stores (lines 284-285, 296-297)
MimicJoinItem(op, item, v, time, now, id) ==
    [value |-> BytesV(Joined(op, item.value.s, PyStr(v))), expires |-> Expires(time, now),
     parse |-> item.parse, cas_id |-> id]

MimicAppendStep(t, v, x) ==
    LET f == th[t]
    IN IF f.pc = "read"
       THEN IF f.key \notin DOMAIN cache
            THEN Out(cache, Release(Acquire(lock, t)), nextId, Return(f, BoolV(FALSE), 0))
            ELSE LET item == cache[f.key]
                     old == Parse(item.parse, item.value)
                 IN IF old = ErrV
                    THEN Out(cache, Release(Acquire(lock, t)), nextId, Raise(f, "ValueError"))
                    ELSE IF old.k = "float"
                    THEN Out(cache, Release(Acquire(lock, t)), nextId,
                             Return(f, BoolV(TRUE), 0))
                    ELSE Out(cache, Acquire(lock, t), nextId,
                             Goto([f EXCEPT !.item = item], "set"))
       ELSE Out(Store(cache, f.key, MimicJoinItem(f.op, f.item, v, x, Now, nextId)),
                Release(lock), nextId + 1,
                Return([f EXCEPT !.val = v, !.time = x], BoolV(TRUE), 0))

AppendStep(t, v, x) ==
    IF variant = "Stash" THEN StashAppendStep(t, v, x) ELSE MimicAppendStep(t, v, x)

(***************************************************************************)
(* cas (lines 179-187, 300-308): the test `key not in self.cache or not    *)
(* cas_id`, the comparison with self.cache[key].cas_id, then set.          *)
(***************************************************************************)
\* mutant: the test `or not cas_id` is missing
CasSkipsCheck_KeyOnly(c, key, tok) == key \notin DOMAIN c

\* key not in self.cache or not cas_id
CasSkipsCheck(c, key, tok) == key \notin DOMAIN c \/ tok = 0

\* mutant: the tokens are not compared
CasMatches_Always(tok, item) == TRUE

\* cas_id == self.cache[key].cas_id
CasMatches(tok, item) == tok = item.cas_id

CasStep(t, v, x, tok) ==
    LET f == th[t]
    IN CASE f.pc = "chk" ->
              IF CasSkipsCheck(cache, f.key, tok)
              THEN Out(cache, Acquire(lock, t), nextId,
                       Goto([f EXCEPT !.tok = tok, !.seen = FALSE], "set"))
              ELSE Out(cache, Acquire(lock, t), nextId,
                       Goto([f EXCEPT !.tok = tok, !.seen = TRUE], "cmp"))
         [] f.pc = "cmp" ->
              IF f.key \notin DOMAIN cache
              THEN Out(cache, Release(lock), nextId, Raise(f, "KeyError"))
              ELSE IF CasMatches(f.tok, cache[f.key])
              THEN Out(cache, lock, nextId, Goto(f, "set"))
              ELSE Out(cache, Release(lock), nextId, Return(f, IntV(0), 0))
         [] OTHER ->
              Out(SetWrite(variant, cache, f.key, v, x, Now, nextId),
                  ReleaseN(Acquire(lock, t), 2), nextId + 1,
                  Return([f EXCEPT !.val = v, !.time = x], BoolV(TRUE), 0))

(***************************************************************************)
(* The calls a thread makes.  A call names the method and the key; each    *)
(* further argument is drawn in the step that first reads it.  A workload  *)
(* W gives the sets the arguments are drawn from:                          *)
(*   ops      the methods called                                           *)
(*   keys     the keys they are called with                                *)
(*   setvals  the values of set                                            *)
(*   newvals  the values of update and cas                                 *)
(*   joinvals the values of append and prepend                             *)
(*   ttls     the time arguments                                           *)
(*   deltas   the deltas of incr                                           *)
(***************************************************************************)
Ops == {"get", "set", "update", "incr", "append", "prepend", "cas", "delete", "flush"}

General ==
    [ops |-> Ops,
     keys |-> {"a"},
     setvals |-> {IntV(12), StrV(<<"a">>), FloatV(<<"1", ".", "5">>)},
     newvals |-> {StrV(<<"1">>)},
     joinvals |-> {StrV(<<"a">>)},
     ttls |-> {0, 1},
     deltas |-> {1}]

\* the first step of a call
FirstPc(op) ==
    CASE op \in {"get", "incr", "append", "prepend", "client_get", "add", "get_multi"} -> "read"
      [] op \in {"update", "cas", "client_cas"} -> "chk"
      [] OTHER -> "set"

FrameOf(op, key) == [IdleFrame EXCEPT !.pc = FirstPc(op), !.op = op, !.key = key]

\* the time argument with which a call writes: incr calls update(key, value)
WriteTtl(f, r) == IF f.op = "incr" THEN None ELSE r.fr.time

NoOrigin == [ttl |-> None, at |-> 0]

\* self.cas_cache = {}: no key has a token; 0 stands for the None of dict.get
NoTokens == [k \in Keys |-> 0]

\* the call before was no Client.get, or one that returned None
NoFetch == [key |-> "", id |-> 0]

\* what a call that is over fetched: the key and the token of the entry that
\* a Client.get returned
Past(f) ==
    IF f.op = "client_get" /\ f.ret.tag = "return" /\ f.ret.id # 0
    THEN [key |-> f.key, id |-> f.ret.id]
    ELSE NoFetch

(***************************************************************************)
(* Actions.                                                                *)
(***************************************************************************)
\* thread t takes the step whose outcome is r: its effect on the store
Effect(t, r) ==
    /\ cache' = r.cache
    /\ lock' = r.lock
    /\ nextId' = r.nextId
    /\ th' = [th EXCEPT ![t] = r.fr]
    /\ retired' = [k \in Keys |->
                     IF k \in DOMAIN cache /\ (k \notin DOMAIN r.cache \/ r.cache[k] # cache[k])
                     THEN retired[k] \cup {cache[k].cas_id}
                     ELSE retired[k]]
    /\ origin' = [k \in Keys |->
                    IF k \in DOMAIN r.cache /\ (k \notin DOMAIN cache \/ r.cache[k] # cache[k])
                    THEN [ttl |-> WriteTtl(th[t], r), at |-> Now]
                    ELSE origin[k]]
    /\ UNCHANGED <<variant, tz, clock, nops, start>>

\* a step of a store method: the caches of the clients are not touched
Do(t, r) == Effect(t, r) /\ UNCHANGED clients

Running(t, op) == th[t].pc # "idle" /\ th[t].op = op

\* thread t calls a method of the store
Call(t, W) ==
    /\ th[t].pc = "idle"
    /\ nops < MaxOps
    /\ \E op \in W.ops, k \in W.keys : th' = [th EXCEPT ![t] = FrameOf(op, k)]
    /\ nops' = nops + 1
    /\ UNCHANGED <<variant, tz, clock, cache, lock, nextId, retired, origin, start, log,
                   clients>>

Get(t) == Running(t, "get") /\ Do(t, GetStep(t)) /\ UNCHANGED log

Set(t, W) ==
    /\ Running(t, "set")
    /\ CanAcquire(lock, t)
    /\ \E v \in W.setvals, x \in W.ttls : Do(t, SetStep(t, v, x))
    /\ UNCHANGED log

Update(t, W) ==
    /\ Running(t, "update")
    /\ CanAcquire(lock, t)
    /\ \E v \in W.newvals, x \in W.ttls : Do(t, UpdateStep(t, v, x))
    /\ UNCHANGED log

Incr(t, W) ==
    /\ Running(t, "incr")
    /\ CanAcquire(lock, t)
    /\ \E d \in W.deltas : Do(t, IncrStep(t, d))
    /\ UNCHANGED log

AppendOp(t, W) ==
    /\ Running(t, "append")
    /\ CanAcquire(lock, t)
    /\ \E v \in W.joinvals, x \in W.ttls : Do(t, AppendStep(t, v, x))
    /\ UNCHANGED log

Prepend(t, W) ==
    /\ Running(t, "prepend")
    /\ CanAcquire(lock, t)
    /\ \E v \in W.joinvals, x \in W.ttls : Do(t, AppendStep(t, v, x))
    /\ UNCHANGED log

Cas(t, W) ==
    /\ Running(t, "cas")
    /\ CanAcquire(lock, t)
    /\ \E v \in W.newvals, x \in W.ttls, i \in 0..(nextId - 1) : Do(t, CasStep(t, v, x, i))
    /\ UNCHANGED log

Delete(t) ==
    Running(t, "delete") /\ CanAcquire(lock, t) /\ Do(t, DeleteStep(t)) /\ UNCHANGED log

Flush(t) ==
    Running(t, "flush") /\ CanAcquire(lock, t) /\ Do(t, FlushStep(t)) /\ UNCHANGED log

\* a second passes
Tick ==
    /\ clock < Epoch0 + MaxTicks
    /\ clock' = clock + 1
    /\ UNCHANGED <<variant, tz, cache, lock, nextId, th, nops, retired, origin, start, log,
                   clients>>

\* the state after Stash() or MimicStash(), on a machine whose offset from UTC is in Z
InitIn(Z) ==
    /\ variant \in Variants
    /\ tz \in Z
    /\ clock = Epoch0
    /\ cache = EmptyCache
    /\ lock = Unlocked
    /\ nextId = 1
    /\ th = [t \in Threads |-> IdleFrame]
    /\ nops = 0
    /\ retired = [k \in Keys |-> {}]
    /\ origin = [k \in Keys |-> NoOrigin]
    /\ start = NoneV
    /\ log = <<>>
    /\ cas_cache = [t \in Threads |-> NoTokens]
    /\ prev = [t \in Threads |-> NoFetch]
    /\ fetched = [t \in Threads |-> {}]

Init == InitIn({0})

Next ==
    \/ \E t \in Threads :
         \/ Call(t, General)
         \/ Get(t)
         \/ Set(t, General)
         \/ Update(t, General)
         \/ Incr(t, General)
         \/ AppendOp(t, General)
         \/ Prepend(t, General)
         \/ Cas(t, General)
         \/ Delete(t)
         \/ Flush(t)
    \/ Tick

Spec == Init /\ [][Next]_vars

(***************************************************************************)
(* SpecIncr: the key "a" was set with no expiry, and every thread calls    *)
(* incr("a", 1) MaxCalls times; log keeps what each call returned.         *)
(***************************************************************************)
IncrStarts == {IntV(0), IntV(1), IntV(7), StrV(<<"0">>), StrV(<<"1">>)}

\* the calls of thread t that have returned
Returned(t) == {i \in 1..Len(log) : log[i].t = t}

InitIncr ==
    /\ variant \in Variants
    /\ tz = 0
    /\ clock = Epoch0
    /\ start \in IncrStarts
    /\ cache = Store(EmptyCache, "a", NewItem(variant, start, 0, Now, 1))
    /\ lock = Unlocked
    /\ nextId = 2
    /\ th = [t \in Threads |-> IdleFrame]
    /\ nops = 0
    /\ retired = [k \in Keys |-> {}]
    /\ origin = [k \in Keys |-> IF k = "a" THEN [ttl |-> 0, at |-> Now] ELSE NoOrigin]
    /\ log = <<>>
    /\ cas_cache = [t \in Threads |-> NoTokens]
    /\ prev = [t \in Threads |-> NoFetch]
    /\ fetched = [t \in Threads |-> {}]

CallIncr(t) ==
    /\ th[t].pc = "idle"
    /\ Cardinality(Returned(t)) < MaxCalls
    /\ th' = [th EXCEPT ![t] = FrameOf("incr", "a")]
    /\ UNCHANGED <<variant, tz, clock, cache, lock, nextId, nops, retired, origin, start, log,
                   clients>>

IncrLogged(t) ==
    /\ Running(t, "incr")
    /\ CanAcquire(lock, t)
    /\ Do(t, IncrStep(t, 1))
    /\ log' = IF th'[t].pc = "idle" THEN Append(log, [t |-> t, ret |-> th'[t].ret]) ELSE log

NextIncr == \E t \in Threads : CallIncr(t) \/ IncrLogged(t)

SpecIncr == InitIncr /\ [][NextIncr]_vars

\* every call of every thread has returned
AllIncrDone == Len(log) = Cardinality(Threads) * MaxCalls

\* the integer a stored int or digit text denotes
AsInt(v) == IF v.k = "str" THEN IntParse(v.s) ELSE v.n

\* the value a get of key k would decode
Stored(k) == Decode(variant, cache[k])

\* the integers the calls returned
LogInts == {log[i].ret.val.n : i \in 1..Len(log)}

\* C1: when the key holds a positive integer v (as int or as digit text) and
\* the threads' c concurrent incr(key, 1) calls have all returned, the stored
\* value is v + c and the calls returned v+1, ..., v+c, each once, in
\* Stash and in MimicStash.
C1_NoLostUpdate ==
    (AllIncrDone /\ AsInt(start) > 0) =>
        /\ "a" \in DOMAIN cache
        /\ Stored("a").k = start.k
        /\ AsInt(Stored("a")) = AsInt(start) + Len(log)
        /\ \A i \in 1..Len(log) : log[i].ret.tag = "return" /\ log[i].ret.val.k = "int"
        /\ LogInts = (AsInt(start) + 1)..(AsInt(start) + Len(log))

\* C1 witness: all calls returned, and the calls of the two threads alternated
C1_Witness ==
    /\ AllIncrDone
    /\ AsInt(start) > 0
    /\ variant = "MimicStash"
    /\ log[1].t # log[2].t
    /\ AsInt(Stored("a")) = AsInt(start) + Len(log)

\* C2: N threads each calling incr(key, 1) M times on a key whose stored value
\* is 0 leave the value N*M.
C2_FromZero ==
    (AllIncrDone /\ AsInt(start) = 0) =>
        /\ "a" \in DOMAIN cache
        /\ AsInt(Stored("a")) = Cardinality(Threads) * MaxCalls

(***************************************************************************)
(* Properties of Spec.                                                     *)
(***************************************************************************)
\* thread t takes a step of a call to op
StepOf(t, op) == Running(t, op) /\ th'[t] # th[t]

\* the call of thread t returns v in this step
Returns(t, v) ==
    th'[t].pc = "idle" /\ th'[t].ret.tag = "return" /\ th'[t].ret.val = v /\ th'[t].ret.id = 0

\* the item under k in the next state carries a token that k's item does not
\* carry now and that no earlier item under k carried
FreshToken(k) ==
    /\ k \in DOMAIN cache'
    /\ cache'[k].cas_id \notin retired[k]
    /\ k \in DOMAIN cache => cache'[k].cas_id # cache[k].cas_id

\* C3: the del of a get that saw an expired item removes that item, never an
\* item a set, cas or update stored under the key after the get read it.
C3_GetRemovesWhatItRead ==
    [][\A t \in Threads :
         (StepOf(t, "get") /\ th[t].pc = "del" /\ cache' # cache)
             => cache[th[t].key] = th[t].item]_vars

\* C4: a get of a key last written with 0 < ttl <= 2,592,000 at local time t0
\* returns the value when it reads before t0 + ttl and returns no value when it
\* reads at t0 + ttl or later.
C4_AbsentFromDeadline ==
    [][\A t \in Threads :
         LET k == th[t].key
         IN (/\ StepOf(t, "get")
             /\ th[t].pc = "read"
             /\ k \in DOMAIN cache
             /\ origin[k].ttl > 0
             /\ origin[k].ttl <= ThirtyDays
             /\ Stored(k) # ErrV)
                => /\ Now < origin[k].at + origin[k].ttl
                        => th'[t].pc = "idle" /\ th'[t].ret.val = Stored(k)
                   /\ Now >= origin[k].at + origin[k].ttl
                        => ~(th'[t].pc = "idle" /\ th'[t].ret.val # NoneV)]_vars

\* C5: a cas on a key that is in the store, with a token that an earlier item
\* of the key carried before the item was replaced, goes to the comparison,
\* returns 0 and leaves the store as it is.
C5_StaleCas ==
    [][\A t \in Threads :
         LET k == th[t].key
         IN (StepOf(t, "cas") /\ k \in DOMAIN cache)
                => /\ (th[t].pc = "chk" /\ th'[t].tok \in retired[k])
                        => th'[t].pc = "cmp" /\ cache' = cache
                   /\ (th[t].pc = "cmp" /\ th[t].tok \in retired[k])
                        => Returns(t, IntV(0)) /\ cache' = cache]_vars

\* C5 witness: a cas with a retired token has returned 0, the key still stored
C5_Witness ==
    \E t \in Threads :
        /\ th[t].pc = "idle" /\ th[t].op = "cas"
        /\ th[t].ret.val = IntV(0)
        /\ th[t].tok \in retired[th[t].key]
        /\ th[t].key \in DOMAIN cache

\* the call of thread t reports success in this step
Succeeds(t) ==
    /\ th[t].pc # "idle"
    /\ th'[t].pc = "idle"
    /\ th'[t].ret.tag = "return"
    /\ \/ th[t].op \in {"set", "update", "cas", "append", "prepend"}
          /\ th'[t].ret.val = BoolV(TRUE)
       \/ th[t].op = "incr" /\ th'[t].ret.val.k = "int"

\* C6, as claimed: whenever set, cas, update, incr, append or prepend reports
\* success for k, k's item then carries a fresh token.
C6_SuccessIsFresh == [][\A t \in Threads : Succeeds(t) => FreshToken(th[t].key)]_vars

\* the two successes that store nothing: MimicStash.append/prepend on a float
\* item, and the incr whose update finds that the key has left the store
StoresNothing(t) ==
    LET k == th[t].key
    IN \/ /\ variant = "MimicStash"
          /\ th[t].op \in {"append", "prepend"}
          /\ k \in DOMAIN cache
          /\ Stored(k).k = "float"
       \/ th[t].op = "incr" /\ th[t].pc = "chk" /\ k \notin DOMAIN cache

\* C6, amended: a call that reports success stores an item with a fresh
\* token, except the two that store nothing, which leave the store as it is.
C6_WriteIsFresh ==
    [][\A t \in Threads :
         Succeeds(t) => IF StoresNothing(t) THEN cache' = cache
                        ELSE FreshToken(th[t].key)]_vars

\* C6 witness: an append has replaced an item and returned True
C6_Witness ==
    \E t \in Threads :
        /\ th[t].pc = "idle" /\ th[t].op = "append"
        /\ th[t].ret.val = BoolV(TRUE)
        /\ th[t].key \in DOMAIN cache
        /\ retired[th[t].key] # {}
        /\ cache[th[t].key].cas_id \notin retired[th[t].key]

\* C7: cas with a token, on a key that is in the store when the tokens are
\* compared: an equal token leads to the set, which stores the value under a
\* fresh token and returns True; an unequal one returns 0, which is not True,
\* and leaves the store as it is.
C7_CasIffTokenMatches ==
    [][\A t \in Threads :
         LET k == th[t].key
         IN /\ (StepOf(t, "cas") /\ th[t].pc = "cmp" /\ k \in DOMAIN cache)
                 => IF th[t].tok = cache[k].cas_id
                    THEN th'[t].pc = "set" /\ cache' = cache
                    ELSE Returns(t, IntV(0)) /\ IntV(0) # BoolV(TRUE) /\ cache' = cache
            /\ (StepOf(t, "cas") /\ th[t].pc = "set" /\ th[t].seen)
                 => /\ Returns(t, BoolV(TRUE))
                    /\ FreshToken(k)
                    /\ Decode(variant, cache'[k]) = th'[t].val]_vars

\* C7 witness: a cas whose token matched has replaced the item
C7_Witness ==
    \E t \in Threads :
        /\ th[t].pc = "idle" /\ th[t].op = "cas"
        /\ th[t].ret.val = BoolV(TRUE)
        /\ th[t].tok # 0
        /\ th[t].tok \in retired[th[t].key]

\* the expires the TTL rule gives a write with time argument x
RuleExpires(x) == IF x = 0 THEN None ELSE IF x > ThirtyDays THEN x ELSE Now + x

\* C8: a cas that finds the key absent, or is called with no token, goes to
\* the set whatever is stored: it returns True and the key then holds the
\* value, the expiry the ttl gives and a fresh token.
C8_CasLikeSet ==
    [][\A t \in Threads :
         LET k == th[t].key
         IN /\ (StepOf(t, "cas") /\ th[t].pc = "chk"
                    /\ (k \notin DOMAIN cache \/ th'[t].tok = 0))
                 => th'[t].pc = "set" /\ ~th'[t].seen /\ cache' = cache
            /\ (StepOf(t, "cas") /\ th[t].pc = "set" /\ ~th[t].seen)
                 => /\ Returns(t, BoolV(TRUE))
                    /\ FreshToken(k)
                    /\ Decode(variant, cache'[k]) = th'[t].val
                    /\ cache'[k].expires = RuleExpires(th'[t].time)]_vars

\* C8 witness: a cas without a token has replaced an item
C8_Witness ==
    \E t \in Threads :
        /\ th[t].pc = "idle" /\ th[t].op = "cas"
        /\ th[t].ret.val = BoolV(TRUE)
        /\ th[t].tok = 0
        /\ retired[th[t].key] # {}

\* C9: no call of get raises.
C9_GetNeverRaises == \A t \in Threads : th[t].op = "get" => th[t].ret.tag # "raise"

\* C10: a get that reads a stored item whose expiry is not reached returns in
\* that step, with the item's decoded value and its token unless the decoding
\* raises, and leaves the store as it is.
C10_GetDoesNotMutate ==
    [][\A t \in Threads :
         LET k == th[t].key
         IN (/\ StepOf(t, "get")
             /\ th[t].pc = "read"
             /\ k \in DOMAIN cache
             /\ (cache[k].expires = None \/ Now < cache[k].expires))
                => /\ cache' = cache
                   /\ th'[t].pc = "idle"
                   /\ th'[t].ret.tag = "return"
                        => th'[t].ret.val = Stored(k) /\ th'[t].ret.id = cache[k].cas_id
                   /\ th'[t].ret.tag = "raise" => Stored(k) = ErrV]_vars

\* C10 witness: a get has returned the value and the token of an item that
\* has an expiry, and the item is still stored
C10_Witness ==
    \E t \in Threads :
        /\ th[t].pc = "idle" /\ th[t].op = "get"
        /\ th[t].ret.tag = "return"
        /\ th[t].key \in DOMAIN cache
        /\ cache[th[t].key].expires # None
        /\ th[t].ret.val = Stored(th[t].key)
        /\ th[t].ret.id = cache[th[t].key].cas_id

\* the thread that takes this step, if a thread's frame changes in it
Stepper == {t \in Threads : th'[t] # th[t]}

\* C11: a key that is absent from the map becomes present only in a step of
\* set or cas (add is a get followed by set); update, incr, append and prepend
\* never create a key.
C11_OnlySetAndCasCreate ==
    [][\A k \in Keys :
         (k \notin DOMAIN cache /\ k \in DOMAIN cache')
             => \A t \in Stepper : th[t].op \in {"set", "cas"}]_vars

\* C12: an update that finds the entry of its key expired treats the key as
\* absent: it returns False in the step of its existence check and stores
\* nothing.
C12_UpdateSkipsExpired ==
    [][\A t \in Threads :
         LET k == th[t].key
         IN (/\ StepOf(t, "update")
             /\ th[t].pc = "chk"
             /\ k \in DOMAIN cache
             /\ Expired(cache[k], Now))
                => Returns(t, BoolV(FALSE))]_vars

\* C14: the item a successful incr stores expires when the item it replaces
\* would have expired.
C14_IncrKeepsExpiry ==
    [][\A t \in Threads :
         LET k == th[t].key
         IN (/\ StepOf(t, "incr")
             /\ k \in DOMAIN cache
             /\ k \in DOMAIN cache'
             /\ cache'[k] # cache[k])
                => cache'[k].expires = cache[k].expires]_vars

(***************************************************************************)
(* SpecUpdate: threads call set, update, delete and flush; every call that *)
(* removes a key takes write_lock.                                         *)
(***************************************************************************)
UpdateWork ==
    [ops |-> {"set", "update", "delete", "flush"},
     keys |-> {"a"},
     setvals |-> {IntV(12), StrV(<<"a">>)},
     newvals |-> {StrV(<<"1">>), IntV(7)},
     joinvals |-> {},
     ttls |-> {0, 1},
     deltas |-> {}]

NextUpdate ==
    \E t \in Threads :
        \/ Call(t, UpdateWork)
        \/ Set(t, UpdateWork)
        \/ Update(t, UpdateWork)
        \/ Delete(t)
        \/ Flush(t)

SpecUpdate == Init /\ [][NextUpdate]_vars

\* C13: while an update is between its existence check and its write it owns
\* the lock, its key stays in the store and no delete or flush (no step of
\* another thread) changes the store; an update that returns False has stored
\* nothing and its key is absent.
C13_UpdateAtomic ==
    [][\A t \in Threads :
         LET k == th[t].key
         IN /\ (Running(t, "update") /\ th[t].pc = "set")
                 => /\ lock.owner = t
                    /\ k \in DOMAIN cache
                    /\ cache' # cache => Stepper = {t} /\ k \in DOMAIN cache'
            /\ (StepOf(t, "update") /\ Returns(t, BoolV(FALSE)))
                 => cache' = cache /\ k \notin DOMAIN cache']_vars

\* C13 witness: an update has passed its check, and a delete or a flush of
\* the other thread waits for the lock
C13_Witness ==
    \E t, u \in Threads :
        /\ Running(t, "update") /\ th[t].pc = "set"
        /\ Running(u, "delete") \/ Running(u, "flush")
        /\ ~CanAcquire(lock, u)

(***************************************************************************)
(* SpecTypes: threads call set, get, incr, append and prepend with values  *)
(* of every type the code distinguishes: int (zero and not), text (empty,  *)
(* digits, other), float, and compound values (an empty and a non-empty    *)
(* dict, by their repr), all stored without expiry.  decr(key, d) is       *)
(* incr(key, 0 - d) (Client.decr).                                         *)
(***************************************************************************)
SomeDict == <<"{", "1", ":", " ", "2", "}">>

Types ==
    [ops |-> {"set", "get", "incr", "append", "prepend"},
     keys |-> {"a"},
     setvals |-> {IntV(0), IntV(12), StrV(<<>>), StrV(<<"1", "2">>), StrV(<<"a">>),
                  FloatV(<<"1", ".", "5">>), ObjV(EmptyDict), ObjV(SomeDict)},
     newvals |-> {},
     joinvals |-> {IntV(34), StrV(<<"4">>), StrV(<<"a">>)},
     ttls |-> {0},
     deltas |-> {1, 0 - 20}]

NextTypes ==
    \E t \in Threads :
        \/ Call(t, Types)
        \/ Get(t)
        \/ Set(t, Types)
        \/ Incr(t, Types)
        \/ AppendOp(t, Types)
        \/ Prepend(t, Types)

SpecTypes == Init /\ [][NextTypes]_vars

\* the call of thread t raises the exception e in this step
Raises(t, e) == th'[t].pc = "idle" /\ th'[t].ret.tag = "raise" /\ th'[t].ret.exc = e

\* thread t takes the first step of an incr, of an append or of a prepend
\* on a key that is stored and readable
ReadsStored(t, ops) ==
    /\ th[t].op \in ops
    /\ StepOf(t, th[t].op)
    /\ th[t].pc = "read"
    /\ th[t].key \in DOMAIN cache
    /\ ~Expired(cache[th[t].key], Now)
    /\ Stored(th[t].key) # ErrV

\* C15: incr (decr) on a key that is absent, or whose stored value is the
\* empty text or the integer 0, returns None in one step, raising nothing,
\* and leaves the store as it is.
C15_IncrOnNothing ==
    [][\A t \in Threads :
         LET k == th[t].key
         IN (\/ StepOf(t, "incr") /\ th[t].pc = "read" /\ k \notin DOMAIN cache
             \/ ReadsStored(t, {"incr"}) /\ Stored(k) \in {StrV(<<>>), IntV(0)})
                => Returns(t, NoneV) /\ cache' = cache]_vars

\* C15 witness: an incr has returned None on a stored integer 0
C15_Witness ==
    \E t \in Threads :
        /\ th[t].pc = "idle" /\ th[t].op = "incr"
        /\ th[t].ret.tag = "return" /\ th[t].ret.val = NoneV
        /\ th[t].key \in DOMAIN cache
        /\ Stored(th[t].key) = IntV(0)

\* the stored value is text that is not empty and not an integer, or a
\* compound value
NonNumeric(item) ==
    \/ item.value.k = "obj"
    \/ LET v == Decode(variant, item)
       IN v.k = "str" /\ Len(v.s) > 0 /\ ~IntParses(v.s)

\* C16, as claimed: incr (decr) on a key whose stored value is non-empty text
\* that is not an integer, or a compound value, raises ValueError and leaves
\* the store as it is.
C16_IncrOnNonNumericRaises ==
    [][\A t \in Threads :
         (ReadsStored(t, {"incr"}) /\ NonNumeric(cache[th[t].key]))
             => Raises(t, "ValueError") /\ cache' = cache]_vars

\* C16, amended: incr (decr) on a key whose stored value is non-empty text
\* that is not an integer, or a compound value that is not false (not the
\* empty dict of Stash), raises ValueError and leaves the store as it is.
C16_IncrOnTruthyNonNumericRaises ==
    [][\A t \in Threads :
         (/\ ReadsStored(t, {"incr"})
          /\ NonNumeric(cache[th[t].key])
          /\ Truthy(Stored(th[t].key)))
             => Raises(t, "ValueError") /\ cache' = cache]_vars

\* C16 witness: an incr has raised ValueError on a stored compound value
C16_Witness ==
    \E t \in Threads :
        /\ th[t].pc = "idle" /\ th[t].op = "incr"
        /\ th[t].ret.tag = "raise" /\ th[t].ret.exc = "ValueError"
        /\ th[t].key \in DOMAIN cache
        /\ cache[th[t].key].value.k = "obj"

\* the value is an integer or the text of an integer, and is not false
IntValued(v) ==
    \/ v.k = "int" /\ v.n # 0
    \/ v.k = "str" /\ IntParses(v.s)

\* C17: incr(k, d) on an entry that holds a non-zero integer or integer text
\* computes old + d in the type of the old value (text stays text, integer
\* stays integer); its write stores that value, so that a get decodes it, and
\* the call returns old + d as an integer.  With a negative d (decr) the
\* result goes below zero unclamped.
C17_IncrIsArithmetic ==
    [][\A t \in Threads :
         LET k == th[t].key
         IN /\ (ReadsStored(t, {"incr"}) /\ IntValued(Stored(k)))
                 => /\ th'[t].pc = "chk"
                    /\ th'[t].nv.k = Stored(k).k
                    /\ AsInt(th'[t].nv) = AsInt(Stored(k)) + th'[t].delta
                    /\ cache' = cache
            /\ (StepOf(t, "incr") /\ th[t].pc \in {"chk", "set"})
                 => /\ k \in DOMAIN cache
                    /\ AsInt(th[t].nv) = AsInt(Stored(k)) + th[t].delta
            /\ (StepOf(t, "incr") /\ th[t].pc = "set")
                 => /\ Returns(t, IntV(AsInt(th[t].nv)))
                    /\ Decode(variant, cache'[k]) = th[t].nv]_vars

\* C17 witness: a decr of integer text has returned a negative number, and
\* the key holds the text of that number
C17_Witness ==
    \E t \in Threads :
        /\ th[t].pc = "idle" /\ th[t].op = "incr"
        /\ th[t].ret.tag = "return" /\ th[t].ret.val.k = "int" /\ th[t].ret.val.n < 0
        /\ th[t].key \in DOMAIN cache
        /\ Stored(th[t].key) = StrV(IntStr(th[t].ret.val.n))

\* the operand of an append or prepend is an integer or the text of one
IntOperand(v) == (v.k = "int" /\ v.n >= 0) \/ (v.k = "str" /\ AllDigits(v.s) /\ Len(v.s) > 0)

\* the text that append or prepend builds from the stored value and the operand
JoinedText(op, a, b) == Joined(op, PyStr(a), PyStr(b))

\* C18: append/prepend on a stored integer a never returns the failure
\* result; with an operand b that is an integer or integer text it goes on
\* to its write, returns True and the key then holds the integer whose text
\* is text(a) text(b) (prepend: text(b) text(a)), in Stash and in MimicStash.
C18_IntegerConcatenation ==
    [][\A t \in Threads :
         LET k == th[t].key
         IN /\ (ReadsStored(t, {"append", "prepend"}) /\ Stored(k).k = "int")
                 => /\ ~Returns(t, BoolV(FALSE))
                    /\ (variant = "MimicStash" \/ IntOperand(th'[t].val))
                          => th'[t].pc = "set"
            /\ (/\ StepOf(t, th[t].op)
                /\ th[t].op \in {"append", "prepend"}
                /\ th[t].pc = "set"
                /\ k \in DOMAIN cache
                /\ Stored(k).k = "int"
                /\ IntOperand(th'[t].val))
                 => /\ Returns(t, BoolV(TRUE))
                    /\ Decode(variant, cache'[k])
                         = IntV(IntParse(JoinedText(th[t].op, Stored(k), th'[t].val)))]_vars

\* C19: append/prepend on a stored, unexpired key holding text goes on to its
\* write, which stores the literal concatenation and returns True, the empty
\* text included; the failure result False is not returned for a stored key
\* whose value is text or an integer, zero included.
C19_TextAlwaysConcatenates ==
    [][\A t \in Threads :
         LET k == th[t].key
         IN /\ (ReadsStored(t, {"append", "prepend"}) /\ Stored(k).k \in {"str", "int"})
                 => ~Returns(t, BoolV(FALSE))
            /\ (ReadsStored(t, {"append", "prepend"}) /\ Stored(k).k = "str")
                 => th'[t].pc = "set"
            /\ (/\ StepOf(t, th[t].op)
                /\ th[t].op \in {"append", "prepend"}
                /\ th[t].pc = "set"
                /\ k \in DOMAIN cache
                /\ Stored(k).k = "str")
                 => /\ Returns(t, BoolV(TRUE))
                    /\ Decode(variant, cache'[k])
                         = StrV(JoinedText(th[t].op, Stored(k), th'[t].val))]_vars

\* the text built from the stored number a and the operand b is no number of
\* a's type
Unparsable(op, a, b) ==
    \/ a.k = "int" /\ ~IntParses(JoinedText(op, a, b))
    \/ a.k = "float" /\ ~FloatParses(JoinedText(op, a, b))

\* C20: in Stash, an append/prepend whose concatenated text does not parse
\* as the type of the stored number raises ValueError and leaves the store
\* as it is.
C20_UnparsableRaises ==
    [][\A t \in Threads :
         LET k == th[t].key
         IN (/\ variant = "Stash"
             /\ ReadsStored(t, {"append", "prepend"})
             /\ th'[t].val # NoneV
             /\ Unparsable(th[t].op, Stored(k), th'[t].val))
                => Raises(t, "ValueError") /\ cache' = cache]_vars

(***************************************************************************)
(* Expiry after append and prepend (Spec).                                 *)
(***************************************************************************)
\* thread t takes the step of an append or prepend that stores the new item
JoinWrites(t) ==
    /\ th[t].op \in {"append", "prepend"}
    /\ StepOf(t, th[t].op)
    /\ th[t].pc = "set"

SoonStamp == Epoch0 + 1

TimeWork ==
    [ops |-> {"set", "get"},
     keys |-> {"a"},
     setvals |-> {IntV(12)},
     newvals |-> {},
     joinvals |-> {},
     ttls |-> {None, 0, 1, ThirtyDays, ThirtyDays + 1, SoonStamp},
     deltas |-> {}]

InitTime == InitIn(TzOffsets)

NextTime ==
    \/ \E t \in Threads :
         \/ Call(t, TimeWork)
         \/ Get(t)
         \/ Set(t, TimeWork)
    \/ Tick

SpecTime == InitTime /\ [][NextTime]_vars

\* C24: the expiry a set stores, in Stash.set and in MimicStash._expires
\* alike: none for ttl 0 or no ttl; the timestamp ttl itself for
\* ttl > 2,592,000; now + ttl for any other ttl, ttl = 2,592,000 included.
C24_TtlRule ==
    [][\A t \in Threads :
         LET k == th[t].key
             x == th'[t].time
         IN StepOf(t, "set")
                => /\ k \in DOMAIN cache'
                   /\ cache'[k].expires =
                        IF x = 0 \/ x = None THEN None
                        ELSE IF x > 2592000 THEN x
                        ELSE Now + x
                   /\ x = 2592000 => cache'[k].expires = Now + 2592000
                   /\ x = 2592001 => cache'[k].expires = 2592001]_vars

\* C24 witness: MimicStash holds an entry set with ttl = 2,592,000 that
\* expires thirty days after the local time of the set
C24_Witness ==
    \E k \in DOMAIN cache :
        /\ variant = "MimicStash"
        /\ tz # 0
        /\ origin[k].ttl = 2592000
        /\ cache[k].expires = origin[k].at + 2592000

\* C25: a get of an entry written with an absolute timestamp T > 2,592,000
\* that lay in the future when it was written returns the value while the
\* Unix time is before T and returns no value once it is past T, at every
\* offset of the local clock from UTC.
C25_AbsoluteExpiry ==
    [][\A t \in Threads :
         LET k == th[t].key
         IN (/\ StepOf(t, "get")
             /\ th[t].pc = "read"
             /\ k \in DOMAIN cache
             /\ origin[k].ttl > ThirtyDays
             /\ origin[k].ttl > origin[k].at - tz)
                => /\ clock < origin[k].ttl
                        => th'[t].pc = "idle" /\ th'[t].ret.val = Stored(k)
                   /\ clock > origin[k].ttl
                        => ~(th'[t].pc = "idle" /\ th'[t].ret.val # NoneV)]_vars

(***************************************************************************)
(* Client (lines 320-589).  Every thread has a Client of its own, created  *)
(* with cache_cas = True on the one store; cas_cache[t] is the dict        *)
(* self.cas_cache of the Client of thread t.  Client.set is stash.set,     *)
(* Client.delete is del stash[key] and Client.flush_all is stash.flush:    *)
(* they are the actions Set, Delete and Flush.                             *)
(***************************************************************************)
\* key_prefix + key
PrefixKey(p, k) == p \o k

\* what a step of a Client method leaves behind: tokens is its cas_cache,
\* looked the keys it has looked up so far
ClientOut(r, tokens, looked) ==
    [cache |-> r.cache, lock |-> r.lock, nextId |-> r.nextId, fr |-> r.fr, tokens |-> tokens,
     looked |-> looked]

\* `if result and self.cache_cas`, with cache_cas = True
Caches(v) == Truthy(v)

\* Client.get (lines 503-511), and gets, which calls it: self.stash[key],
\* then the token is kept when the result is true
ClientGetStep(t) ==
    LET r == GetStep(t)
        hit == r.fr.pc = "idle" /\ r.fr.ret.tag = "return" /\ Caches(r.fr.ret.val)
    IN ClientOut(r, IF hit THEN [cas_cache[t] EXCEPT ![r.fr.key] = r.fr.ret.id]
                    ELSE cas_cache[t],
                 fetched[t] \cup {r.fr.key})

\* Client.cas (lines 556-558): stash.cas with self.cas_cache.get(key)
ClientCasStep(t, v, x) ==
    ClientOut(CasStep(t, v, x, cas_cache[t][th[t].key]), cas_cache[t], fetched[t])

\* Client.add (lines 412-419): item = self.stash[key] without the lock, then
\* False for an item, stash.set for None
AddStep(t, v, x) ==
    LET f == th[t]
    IN CASE f.pc = "read" ->
              LET r == GetItemRead(variant, cache, f.key, Now)
              IN CASE r.st = "absent" -> Out(cache, lock, nextId, Goto(f, "set"))
                   [] r.st = "expired" ->
                        Out(cache, lock, nextId, Goto([f EXCEPT !.item = r.item], "del"))
                   [] r.st = "error" -> Out(cache, lock, nextId, Raise(f, "ValueError"))
                   [] OTHER -> Out(cache, lock, nextId, Return(f, BoolV(FALSE), 0))
         [] f.pc = "del" ->
              LET d == GetItemDel(cache, f.key)
              IN IF d.st = "KeyError" THEN Out(cache, lock, nextId, Raise(f, "KeyError"))
                 ELSE Out(d.cache, lock, nextId, Goto([f EXCEPT !.item = NoItem], "set"))
         [] OTHER -> SetStep(t, v, x)

\* the loop of a multi method goes on to the next key, or the method returns
NextKey(f) ==
    IF Len(f.rest) <= 1 THEN Return([f EXCEPT !.rest = <<>>], NoneV, 0)
    ELSE [f EXCEPT !.rest = Tail(@), !.key = f.rest[2], !.item = NoItem,
                   !.pc = FirstPc(f.op)]

\* results[key] = result
Put(d, key, v) == [k \in (DOMAIN d) \cup {key} |-> IF k = key THEN v ELSE d[k]]

\* `if result:` of get_multi
Includes(v) == Truthy(v)

\* Client.get_multi (lines 513-533), one pass of its loop: the key is looked
\* up behind the prefix; a true result is put in results and its token in
\* cas_cache, both under the key without the prefix.  The method returns
\* the dict results, which the frame keeps.
GetMultiStep(t) ==
    LET f == th[t]
        sk == PrefixKey(f.prefix, f.key)
        looked == fetched[t] \cup {sk}
    IN IF f.pc = "read"
       THEN LET r == GetItemRead(variant, cache, sk, Now)
            IN CASE r.st = "absent" ->
                      ClientOut(Out(cache, lock, nextId, NextKey(f)), cas_cache[t], looked)
                 [] r.st = "expired" ->
                      ClientOut(Out(cache, lock, nextId, Goto([f EXCEPT !.item = r.item], "del")),
                                cas_cache[t], looked)
                 [] r.st = "error" ->
                      ClientOut(Out(cache, lock, nextId, Raise(f, "ValueError")),
                                cas_cache[t], looked)
                 [] OTHER ->
                      IF Includes(r.val)
                      THEN ClientOut(Out(cache, lock, nextId,
                                         NextKey([f EXCEPT !.results = Put(@, f.key, r.val)])),
                                     [cas_cache[t] EXCEPT ![f.key] = r.item.cas_id], looked)
                      ELSE ClientOut(Out(cache, lock, nextId, NextKey(f)), cas_cache[t], looked)
       ELSE LET d == GetItemDel(cache, sk)
            IN IF d.st = "KeyError"
               THEN ClientOut(Out(cache, lock, nextId, Raise(f, "KeyError")),
                              cas_cache[t], looked)
               ELSE ClientOut(Out(d.cache, lock, nextId, NextKey(f)), cas_cache[t], looked)

\* Client.delete_multi (lines 368-387), one pass of its loop:
\* self.delete(key_prefix + key)
DeleteMultiStep(t) ==
    Out(Remove(cache, PrefixKey(th[t].prefix, th[t].key)), Release(Acquire(lock, t)), nextId,
        NextKey(th[t]))

\* the calls of the multi methods: a list of keys and a key_prefix
Requests ==
    {[keys |-> <<"a">>, prefix |-> ""], [keys |-> <<"a", "pa">>, prefix |-> ""],
     [keys |-> <<"a">>, prefix |-> "p"]}

MultiOps == {"get_multi", "delete_multi"}

\* thread t calls a method of its Client
ClientCall(t, W) ==
    /\ th[t].pc = "idle"
    /\ nops < W.calls
    /\ \E op \in W.ops :
         \/ /\ op \in MultiOps
            /\ \E q \in Requests :
                 th' = [th EXCEPT ![t] = [FrameOf(op, Head(q.keys)) EXCEPT
                                            !.rest = q.keys, !.prefix = q.prefix]]
         \/ /\ op \notin MultiOps
            /\ \E k \in W.keys : th' = [th EXCEPT ![t] = FrameOf(op, k)]
    /\ nops' = nops + 1
    /\ prev' = [prev EXCEPT ![t] = Past(th[t])]
    /\ UNCHANGED <<variant, tz, clock, cache, lock, nextId, retired, origin, start, log,
                   cas_cache, fetched>>

\* a step of a Client method
ClientDo(t, r) ==
    /\ Effect(t, r)
    /\ cas_cache' = [cas_cache EXCEPT ![t] = r.tokens]
    /\ fetched' = [fetched EXCEPT ![t] = r.looked]
    /\ UNCHANGED <<prev, log>>

ClientGet(t) == Running(t, "client_get") /\ ClientDo(t, ClientGetStep(t))

ClientCas(t, W) ==
    /\ Running(t, "client_cas")
    /\ CanAcquire(lock, t)
    /\ \E v \in W.newvals, x \in W.ttls : ClientDo(t, ClientCasStep(t, v, x))

Add(t, W) ==
    /\ Running(t, "add")
    /\ th[t].pc = "set" => CanAcquire(lock, t)
    /\ \E v \in W.newvals, x \in W.ttls : Do(t, AddStep(t, v, x))
    /\ UNCHANGED log

GetMulti(t) == Running(t, "get_multi") /\ ClientDo(t, GetMultiStep(t))

DeleteMulti(t) ==
    /\ Running(t, "delete_multi")
    /\ CanAcquire(lock, t)
    /\ Do(t, DeleteMultiStep(t))
    /\ UNCHANGED log

(***************************************************************************)
(* SpecKeys: two keys, set, get, delete, delete_multi and flush.           *)
(***************************************************************************)
KeysWork ==
    [ops |-> {"set", "get", "delete", "delete_multi", "flush"},
     keys |-> Keys,
     calls |-> MaxOps,
     setvals |-> {IntV(12)},
     newvals |-> {},
     joinvals |-> {},
     ttls |-> {0, 1},
     deltas |-> {}]

NextKeys ==
    \/ \E t \in Threads :
         \/ ClientCall(t, KeysWork)
         \/ Get(t)
         \/ Set(t, KeysWork)
         \/ Delete(t)
         \/ DeleteMulti(t)
         \/ Flush(t)
    \/ Tick

SpecKeys == Init /\ [][NextKeys]_vars

\* the step of thread t is the lookup of a get whose key the store lacks
GetOfAbsent(t) ==
    StepOf(t, "get") /\ th[t].pc = "read" /\ th[t].key \notin DOMAIN cache

\* the entries under the keys other than k stay as they are
OthersKept(k) ==
    \A q \in Keys \ {k} :
        /\ q \in DOMAIN cache' <=> q \in DOMAIN cache
        /\ q \in DOMAIN cache => cache'[q] = cache[q]

\* C22: flush returns without an error and leaves the store with no entry,
\* whether the entries had an expiry or none, and whether or not the store
\* was empty already; a get of a key the store lacks returns None and stores
\* nothing; a key the store lacks comes back only by a set of that key.
C22_FlushDiscardsAll ==
    [][\A t \in Threads :
         /\ StepOf(t, "flush") => (cache' = EmptyCache /\ Returns(t, NoneV))
         /\ GetOfAbsent(t) => (Returns(t, NoneV) /\ cache' = cache)
         /\ \A k \in Keys :
              (StepOf(t, th[t].op) /\ k \notin DOMAIN cache /\ k \in DOMAIN cache')
                  => (th[t].op = "set" /\ th[t].key = k)]_vars

\* C22 witness: a set without expiry and then two flushes, one by each
\* thread, have returned; the entry the set stored is gone
C22_Witness ==
    /\ nops = 3
    /\ \A t \in Threads : th[t].pc = "idle" /\ th[t].op = "flush" /\ th[t].ret.tag = "return"
    /\ origin["a"] = [ttl |-> 0, at |-> Epoch0]
    /\ retired["a"] # {}
    /\ cache = EmptyCache

\* C23: delete(k) returns without an error, leaves no entry under k, whether
\* there was one or not, and leaves every other key as it was; a get of a key
\* the store lacks returns None; each pass of delete_multi removes the key
\* key_prefix + key and no other.
C23_DeleteRemovesOneKey ==
    [][\A t \in Threads :
         /\ StepOf(t, "delete")
              => /\ Returns(t, NoneV)
                 /\ th[t].key \notin DOMAIN cache'
                 /\ OthersKept(th[t].key)
         /\ GetOfAbsent(t) => Returns(t, NoneV)
         /\ StepOf(t, "delete_multi")
              => /\ th'[t].ret.tag # "raise"
                 /\ (th[t].prefix \o th[t].key) \notin DOMAIN cache'
                 /\ OthersKept(th[t].prefix \o th[t].key)]_vars

\* C23 witness: both keys were set and a delete_multi of ["a"] with the
\* prefix "p" has returned; "pa" is gone and "a" is there
C23_Witness ==
    \E t \in Threads :
        /\ th[t].pc = "idle" /\ th[t].ret.tag = "return"
        /\ th[t].op = "delete_multi" /\ th[t].prefix = "p" /\ th[t].key = "a"
        /\ retired["pa"] # {}
        /\ "pa" \notin DOMAIN cache
        /\ "a" \in DOMAIN cache

(***************************************************************************)
(* SpecClient: two clients on one store that holds values of either truth  *)
(* value; no time passes.                                                  *)
(***************************************************************************)
ClientWork ==
    [ops |-> {"set", "client_get", "client_cas", "get_multi"},
     keys |-> Keys,
     calls |-> MaxClientOps,
     setvals |-> {IntV(0), StrV(<<>>), IntV(12)},
     newvals |-> {StrV(<<"1">>)},
     joinvals |-> {},
     ttls |-> {0},
     deltas |-> {}]

NextClient ==
    \E t \in Threads :
        \/ ClientCall(t, ClientWork)
        \/ Set(t, ClientWork)
        \/ ClientGet(t)
        \/ ClientCas(t, ClientWork)
        \/ GetMulti(t)

SpecClient == Init /\ [][NextClient]_vars

\* the call of thread t is a Client.cas of the key that the client's call
\* before it, a Client.get, found in the store
CasAfterGet(t) ==
    /\ StepOf(t, "client_cas")
    /\ prev[t].key = th[t].key
    /\ prev[t].id # 0
    /\ th[t].key \in DOMAIN cache

\* C27: a client gets k and finds an entry, another client then stores a new
\* entry under k, and the first client calls cas(k, v): no step of that cas
\* changes the store, and the cas returns 0, whatever value the get found.
C27_CasProtects ==
    [][\A t \in Threads :
         (CasAfterGet(t) /\ cache[th[t].key].cas_id # prev[t].id)
             => /\ cache' = cache
                /\ th'[t].pc = "idle" => Returns(t, IntV(0))]_vars

\* C28: a client gets k and finds an entry, and calls cas(k, v) next while
\* that entry is still the one under k: the cas returns True, whatever the
\* client did before the get and whatever value the entry holds.
C28_CasAfterGetSucceeds ==
    [][\A t \in Threads :
         (/\ CasAfterGet(t)
          /\ cache[th[t].key].cas_id = prev[t].id
          /\ th'[t].pc = "idle")
             => Returns(t, BoolV(TRUE))]_vars

\* C29: a cas(k, v) of a client that has looked up the key k of the store in
\* no get, gets or get_multi returns True, whether or not k has an entry and
\* whatever else the client has called.
C29_CasOnUnfetchedSucceeds ==
    [][\A t \in Threads :
         (/\ StepOf(t, "client_cas")
          /\ th[t].key \notin fetched[t]
          /\ th'[t].pc = "idle")
             => Returns(t, BoolV(TRUE))]_vars

\* C30: a pass of get_multi that looks up key_prefix + key puts the key,
\* without the prefix, in the results with the stored value when the store
\* has an entry for it, whatever the value, and leaves it out when the store
\* has none.
C30_GetMultiReturnsPresent ==
    [][\A t \in Threads :
         LET k == th[t].key
             sk == th[t].prefix \o k
         IN (StepOf(t, "get_multi") /\ th[t].pc = "read")
                => IF sk \in DOMAIN cache
                   THEN k \in DOMAIN th'[t].results /\ th'[t].results[k] = Stored(sk)
                   ELSE k \notin DOMAIN th'[t].results]_vars

(***************************************************************************)
(* SpecAdd: two clients that call add and set on one key.                  *)
(***************************************************************************)
AddWork ==
    [ops |-> {"set", "add"},
     keys |-> {"a"},
     calls |-> MaxOps,
     setvals |-> {IntV(0), IntV(12)},
     newvals |-> {StrV(<<"1">>), StrV(<<"2">>)},
     joinvals |-> {},
     ttls |-> {0, 1},
     deltas |-> {}]

NextAdd ==
    \/ \E t \in Threads :
         \/ ClientCall(t, AddWork)
         \/ Set(t, AddWork)
         \/ Add(t, AddWork)
    \/ Tick

SpecAdd == Init /\ [][NextAdd]_vars

\* C26: when the only two calls on a new store are an add of the key "a" by
\* each client, with no expiry, at most one of them has returned True; and
\* an add that finds an unexpired entry returns False and stores nothing.
C26_AddStoresOnce ==
    /\ (/\ nops = 2
        /\ \A t \in Threads :
             th[t].pc = "idle" /\ th[t].op = "add" /\ th[t].key = "a" /\ th[t].time = 0)
           => Cardinality({t \in Threads : th[t].ret.val = BoolV(TRUE)}) <= 1
    /\ \A t \in Threads :
         (/\ Running(t, "add")
          /\ th[t].pc = "read"
          /\ th[t].key \in DOMAIN cache
          /\ ~Expired(cache[th[t].key], Now))
             => AddStep(t, NoneV, 0).fr.ret.val = BoolV(FALSE)

(***************************************************************************)
(* Properties of the last group.                                           *)
(***************************************************************************)
\* C31: in both variants a set returns True and stores its value whatever
\* was stored, and a get of the key in the state the set leaves returns a
\* value equal to the value set and of its kind: text, integer, float, or a
\* compound value.
C31_SetGetRoundTrip ==
    [][\A t \in Threads :
         LET k == th[t].key
         IN StepOf(t, "set")
                => /\ Returns(t, BoolV(TRUE))
                   /\ GetItemRead(variant, cache', k, Now).st = "ok"
                   /\ GetItemRead(variant, cache', k, Now).val = th'[t].val]_vars

(***************************************************************************)
(* SpecLive: the methods that take the lock more than once, and get, under *)
(* a fair scheduler.  A thread that is inside a method and can run does    *)
(* run: no method waits for anything but the lock, and a thread that could *)
(* take the lock for good is not passed over for ever.                     *)
(***************************************************************************)
LiveWork ==
    [ops |-> {"get", "set", "incr", "append", "cas"},
     keys |-> {"a"},
     setvals |-> {IntV(12), StrV(<<"a">>)},
     newvals |-> {StrV(<<"1">>)},
     joinvals |-> {StrV(<<"a">>)},
     ttls |-> {0},
     deltas |-> {1}]

\* a step of the method thread t is in
Steps(t) ==
    \/ Get(t)
    \/ Set(t, LiveWork)
    \/ Incr(t, LiveWork)
    \/ AppendOp(t, LiveWork)
    \/ Cas(t, LiveWork)

NextLive == \E t \in Threads : Call(t, LiveWork) \/ Steps(t)

SpecLive == Init /\ [][NextLive]_vars /\ \A t \in Threads : WF_vars(Steps(t))

\* C32: a thread that is in no method holds no lock, whether its last method
\* returned or raised, and the lock's depth is that of its owner's `with`
\* blocks, two at most; and every method a thread has started comes to its
\* end.
C32_OperationsTerminate ==
    /\ [](\A t \in Threads : th[t].pc = "idle" => lock.owner # t)
    /\ [](lock.count <= 2 /\ (lock.owner = 0 <=> lock.count = 0))
    /\ \A t \in Threads : (th[t].pc # "idle") ~> (th[t].pc = "idle")

\* C32 witness: an incr has raised ValueError, the other thread has finished
\* a method after it, and the lock is free
C32_Witness ==
    \E t, u \in Threads :
        /\ t # u
        /\ th[t].pc = "idle" /\ th[t].op = "incr" /\ th[t].ret.exc = "ValueError"
        /\ th[u].pc = "idle" /\ th[u].op \in {"append", "cas", "incr"}
        /\ th[u].ret.tag = "return"
        /\ nops = MaxOps
        /\ lock = Unlocked

\* thread t takes the first step of a method in ops on a key whose entry is
\* in the store with its expiry past
ReadsExpired(t, ops) ==
    /\ th[t].op \in ops
    /\ StepOf(t, th[t].op)
    /\ th[t].pc = FirstPc(th[t].op)
    /\ th[t].key \in DOMAIN cache
    /\ Expired(cache[th[t].key], Now)

\* C33: in MimicStash an append or prepend that finds an entry whose expiry
\* is past returns False and writes nothing under the key, so that the data
\* of the expired entry is not readable afterwards.
C33_JoinSkipsExpired ==
    [][\A t \in Threads :
         LET k == th[t].key
         IN (variant = "MimicStash" /\ ReadsExpired(t, {"append", "prepend"}))
                => /\ Returns(t, BoolV(FALSE))
                   /\ k \in DOMAIN cache' => cache'[k] = cache[k]]_vars

\* C34: a cas on a key whose entry is in the store with its expiry past
\* behaves like set, whatever its token: when it ends it has returned True,
\* not 0.
C34_CasSkipsExpired ==
    [][\A t \in Threads :
         LET k == th[t].key
         IN (/\ StepOf(t, "cas")
             /\ k \in DOMAIN cache
             /\ Expired(cache[k], Now)
             /\ th'[t].pc = "idle")
                => Returns(t, BoolV(TRUE))]_vars

\* the entry under k is one of MimicStash whose bytes its parse function
\* rejects
Unreadable(c, k) ==
    variant = "MimicStash" /\ k \in DOMAIN c /\ Decode(variant, c[k]) = ErrV

\* the write of an append or prepend of MimicStash that joins text with a
\* character that is no digit to an integer entry
JoinsTextToInt(t) ==
    /\ variant = "MimicStash"
    /\ JoinWrites(t)
    /\ th[t].item.parse = "int"
    /\ th'[t].val.k = "str"
    /\ ~AllDigits(th'[t].val.s)

\* thread t takes the first step of a get of a key whose entry is unreadable
GetOfUnreadable(t) ==
    StepOf(t, "get") /\ th[t].pc = "read" /\ Unreadable(cache, th[t].key)

\* C35, as claimed: the append or prepend returns True; every get of the key
\* raises ValueError from then on; and the entry stays unreadable until a
\* set or a cas overwrites it or a delete or a flush removes it.
C35_UnreadableUntilOverwritten ==
    [][\A t \in Threads :
         LET k == th[t].key
         IN /\ JoinsTextToInt(t) => (Returns(t, BoolV(TRUE)) /\ Unreadable(cache', k))
            /\ GetOfUnreadable(t) => Raises(t, "ValueError")
            /\ (StepOf(t, th[t].op) /\ Unreadable(cache, k) /\ ~Unreadable(cache', k))
                   => th[t].op \in {"set", "cas", "delete", "flush"}]_vars

\* C35, amended: the append or prepend returns True and leaves the entry
\* unreadable; a get of the key raises ValueError and changes nothing as
\* long as the entry's expiry is not past; and the entry stays unreadable
\* until a set, an update or a cas overwrites it, a delete or a flush
\* removes it, or the del of a lookup that found an expired entry under
\* the key removes it.
C35_UnreadableUntilOverwrittenOrExpired ==
    [][\A t \in Threads :
         LET k == th[t].key
         IN /\ JoinsTextToInt(t) => (Returns(t, BoolV(TRUE)) /\ Unreadable(cache', k))
            /\ (GetOfUnreadable(t) /\ ~Expired(cache[k], Now))
                   => (Raises(t, "ValueError") /\ cache' = cache)
            /\ (StepOf(t, th[t].op) /\ Unreadable(cache, k) /\ ~Unreadable(cache', k))
                   => \/ th[t].op \in {"set", "update", "cas", "delete", "flush"}
                      \/ th[t].pc = "del"]_vars

\* C35 witness: in MimicStash a set of an integer and an append of text have
\* returned True and a get after them has raised ValueError; the entry is
\* still there
C35_Witness ==
    \E t, u \in Threads :
        /\ t # u
        /\ nops = 3
        /\ th[t].pc = "idle" /\ th[t].op \in {"append", "prepend"}
        /\ th[t].ret.val = BoolV(TRUE)
        /\ th[u].pc = "idle" /\ th[u].op = "get" /\ th[u].ret.exc = "ValueError"
        /\ Unreadable(cache, "a")
        /\ cache["a"].parse = "int"

(***************************************************************************)
(* SpecIsolation: every method that names one key, and flush, called with  *)
(* the key "a", next to set and get of the key "pa".  decr is incr with    *)
(* the negated delta (Client.decr, lines 403-410).                         *)
(***************************************************************************)
IsolationWork ==
    [ops |-> Ops \cup {"add"},
     keys |-> Keys,
     calls |-> MaxOps,
     setvals |-> {IntV(12)},
     newvals |-> {StrV(<<"1">>)},
     joinvals |-> {StrV(<<"a">>)},
     ttls |-> {1},
     deltas |-> {1, 0 - 1}]

\* thread t calls a method: any of them with "a", set and get with "pa" too
IsolationCall(t) ==
    /\ th[t].pc = "idle"
    /\ nops < IsolationWork.calls
    /\ \E op \in IsolationWork.ops :
         \E k \in (IF op \in {"set", "get"} THEN IsolationWork.keys ELSE {"a"}) :
             th' = [th EXCEPT ![t] = FrameOf(op, k)]
    /\ nops' = nops + 1
    /\ UNCHANGED <<variant, tz, clock, cache, lock, nextId, retired, origin, start, log,
                   clients>>

NextIsolation ==
    \/ \E t \in Threads :
         \/ IsolationCall(t)
         \/ Get(t)
         \/ Set(t, IsolationWork)
         \/ Update(t, IsolationWork)
         \/ Incr(t, IsolationWork)
         \/ AppendOp(t, IsolationWork)
         \/ Prepend(t, IsolationWork)
         \/ Cas(t, IsolationWork)
         \/ Delete(t)
         \/ Add(t, IsolationWork)
         \/ Flush(t)
    \/ Tick

SpecIsolation == Init /\ [][NextIsolation]_vars

\* the keys whose entry a step creates, replaces or removes
Touched ==
    {k \in Keys : \/ (k \in DOMAIN cache) # (k \in DOMAIN cache')
                  \/ k \in DOMAIN cache /\ k \in DOMAIN cache' /\ cache'[k] # cache[k]}

\* C36: a step of get, set, update, incr, decr, append, prepend, cas, delete
\* or add on the key k leaves the entry of every other key as it is, value,
\* expiry and cas token; a step that changes more than one key is a step of
\* flush.
C36_KeyIsolation ==
    [][\A t \in Threads :
         /\ (StepOf(t, th[t].op) /\ th[t].op # "flush") => Touched \subseteq {th[t].key}
         /\ (StepOf(t, th[t].op) /\ Cardinality(Touched) > 1) => th[t].op = "flush"]_vars

\* C36 witness: "pa" was set first, then "a", and a third method, not a get,
\* set or flush, has stored a new entry under "a"; "pa" has its first entry
C36_Witness ==
    \E t \in Threads :
        /\ nops = 3
        /\ th[t].pc = "idle" /\ th[t].key = "a"
        /\ th[t].op \in {"update", "incr", "append", "prepend", "cas"}
        /\ Keys \subseteq DOMAIN cache
        /\ cache["pa"].cas_id = 1
        /\ cache["a"].cas_id = 3

====
